---- MODULE Spec2Model ----
(***************************************************************************)
(* A model of the run supervisor of                                        *)
(* "Golden Draft/tools/vraxion_lab_supervisor.py": the watchdog stage      *)
(* classifier, the threshold derivation done at startup, and main()'s      *)
(* outer attempt loop and inner poll loop, together with the files the     *)
(* supervisor writes and the environment it observes (the child process,   *)
(* the stop file, the consumer of the wake trigger). The backoff           *)
(* computation and _atomic_write_json are also exercised on their own,     *)
(* the latter against a concurrent reader of the destination path.         *)
(*                                                                         *)
(* Durations are integers counting 1/30 of a second, so that every third   *)
(* of a second (watchdog_s / 3.0) and every tenth of a second (6.9, 9.9)   *)
(* is represented exactly.                                                 *)
(***************************************************************************)
EXTENDS Integers, Sequences, FiniteSets, TLC

\* ---------------------------------------------------------------- bounds
\* largest --watchdog-no-output-s / --watchdog-surge-s / --watchdog-spill-s
MaxWatchdogS == 3
\* largest --max-restarts
MaxRestarts == 1
\* largest --watchdog-abort-after-kills
MaxAbortAfterKills == 2
\* longest time one time.sleep(poll_s) takes, in seconds
MaxPollS == 1
\* how many external events happen inside one run of the supervisor: growth
\* of the child's output files, creation or removal of the stop file,
\* consumption of the wake trigger
MaxEnvEvents == 2
\* largest --heartbeat-interval-s
MaxHeartbeatS == 1
\* largest threshold, in seconds, handed directly to the stage classifier
MaxThresholdS == 3

\* largest --restart-backoff-s and largest failure count handed directly to
\* the backoff computation
MaxBackoffS == 3
MaxFailures == 12

\* how many times _atomic_write_json rewrites one snapshot, and how many
\* write() calls the text of one snapshot takes
MaxWrites == 3
MaxChunks == 2

\* ------------------------------------------------------------- durations
Sec(n) == 30 * n
Thirds(n) == 10 * n
Tenths(n) == 3 * n

Max(a, b) == IF a >= b THEN a ELSE b
Min(a, b) == IF a <= b THEN a ELSE b

\* ------------------------------------------------------- class WatchdogStage
OK == 0
SURGE == 1
SPILL == 2
BREACH == 3
WASHOUT == 4

StageName(s) ==
    CASE s = OK -> "OK"
      [] s = SURGE -> "SURGE"
      [] s = SPILL -> "SPILL"
      [] s = BREACH -> "BREACH"
      [] s = WASHOUT -> "WASHOUT"

\* ------------------------------------------------ _compute_watchdog_stage
\* three slips of the classifier: BREACH only past the threshold, SPILL only
\* past the threshold, and a watchdog that is disabled only below zero
compute_watchdog_stage_late_breach(no_output, surge, spill, breach) ==
    IF breach <= 0 THEN OK
    ELSE IF no_output > breach THEN BREACH
    ELSE IF spill > 0 /\ no_output >= spill THEN SPILL
    ELSE IF surge > 0 /\ no_output >= surge THEN SURGE
    ELSE OK

compute_watchdog_stage_late_spill(no_output, surge, spill, breach) ==
    IF breach <= 0 THEN OK
    ELSE IF no_output >= breach THEN BREACH
    ELSE IF spill > 0 /\ no_output > spill THEN SPILL
    ELSE IF surge > 0 /\ no_output >= surge THEN SURGE
    ELSE OK

compute_watchdog_stage_zero_enabled(no_output, surge, spill, breach) ==
    IF breach < 0 THEN OK
    ELSE IF no_output >= breach THEN BREACH
    ELSE IF spill > 0 /\ no_output >= spill THEN SPILL
    ELSE IF surge > 0 /\ no_output >= surge THEN SURGE
    ELSE OK

compute_watchdog_stage(no_output, surge, spill, breach) ==
    IF breach <= 0 THEN OK
    ELSE IF no_output >= breach THEN BREACH
    ELSE IF spill > 0 /\ no_output >= spill THEN SPILL
    ELSE IF surge > 0 /\ no_output >= surge THEN SURGE
    ELSE OK

\* ---------------------------------- main(): threshold derivation at startup
\* the three command-line integers, in seconds; the results are durations
\* a negative --watchdog-no-output-s taken for its magnitude
WatchdogArg_magnitude(w) == Sec(IF w < 0 THEN 0 - w ELSE w)

\* "watchdog_s = float(max(0, int(args.watchdog_no_output_s)))"
WatchdogArg(w) == Sec(Max(0, w))

DerivedSurge(w, s) ==
    LET wd == WatchdogArg(w)
        sg == Sec(Max(0, s))
    IN  IF wd > 0
        THEN IF sg <= 0 \/ sg >= wd THEN Max(Sec(1), wd \div 3) ELSE sg
        ELSE 0

DerivedSpill(w, s, p) ==
    LET wd == WatchdogArg(w)
        sg == DerivedSurge(w, s)
        sp0 == Sec(Max(0, p))
        sp1 == IF sp0 <= 0 \/ sp0 >= wd
               THEN Max(sg + Sec(1), (2 * wd) \div 3)
               ELSE sp0
    IN  IF wd > 0
        THEN IF sp1 <= sg THEN sg + Sec(1) ELSE sp1
        ELSE 0


\* ------------------------------------------------------------------ state
VARIABLES
    pc,                 \* where main() is: "start", "outer" (head of the
                        \* attempt loop), "inner" (head of the poll loop),
                        \* "post" (after the poll loop), "done" (returned);
                        \* "classify" while the classifier alone is exercised
    max_restarts, abort_after_kills, stop_on_success, hb_s,
    watchdog_s, surge_s, spill_s,
    attempt, failures, kill_count, exit_code,
    stage_prev, stage_now, degrade_level, abort_job, rc,
    idle,               \* time.monotonic() - last_activity
    hb_idle,            \* time.monotonic() - last_hb, saturating at hb_s
    elapsed,            \* time.monotonic() - start_mono, saturating at watchdog_s
    status_idle,        \* time.monotonic() - last_status_emit, saturating
    restart_backoff_s,  \* --restart-backoff-s, in seconds
    backoff,            \* the last sleep between two attempts, in half seconds
    stopped_by,         \* which break left the attempt loop
    child,              \* the child process of the current attempt
    moved,              \* the child's output files differ from last_*_sz
    stop_file,          \* the stop file exists
    stop_seen,          \* "outer" / "inner": the loop that saw the stop file,
                        \* while the file has stayed in place since; else ""
    env_events,         \* how many external events happened so far
    wake_trigger,       \* wake_trigger.json
    trig_last,          \* the last write of wake_trigger.json by main()
    job_json, state_json, wd_state, wd_events, failure_summary, log_tail,
    degrade_file, sup_log, status_log,
    out_log,            \* child_stdout.log and child_stderr.log: the attempt
                        \* number of the writer of each piece of output
    orphans,            \* the attempts whose child was not seen to exit
                        \* before the next attempt was spawned
    breach_calls,       \* what the last BREACH handling did, in the order of
                        \* its statements
    degrade_writes,     \* the attempts that wrote degrade_mode.json, in order
    call, call0,        \* the classifier's last two calls, when exercised alone
    disk,               \* one snapshot path and its sibling .tmp path, when
                        \* _atomic_write_json is exercised alone
    writer,             \* where the supervisor is inside _atomic_write_json
    reader              \* a passive reader of the snapshot path

config == <<max_restarts, abort_after_kills, stop_on_success, hb_s,
            watchdog_s, surge_s, spill_s, restart_backoff_s>>
counters == <<attempt, failures, kill_count, exit_code>>
locals == <<stage_prev, stage_now, degrade_level, abort_job, rc>>
clocks == <<idle, hb_idle, status_idle, elapsed>>
environment == <<child, moved, stop_file, stop_seen, env_events>>
trigger == <<wake_trigger, trig_last>>
files == <<job_json, state_json, wd_state, wd_events, failure_summary, log_tail,
           degrade_file, sup_log, status_log>>
calls == <<call, call0>>
atomic == <<disk, writer, reader>>
childlogs == <<out_log, orphans>>
history == <<breach_calls, degrade_writes>>
vars == <<pc, config, counters, locals, clocks, backoff, stopped_by,
          environment, trigger, files, calls, atomic, childlogs, history>>

NoFile == [exists |-> FALSE]
NoChild == [st |-> "none", rc |-> 0, attempt |-> 0, degrade |-> "", by |-> ""]
NoCall == [made |-> FALSE]
\* neither the snapshot nor its .tmp sibling exists; nobody writes or reads
NoDisk == [dest |-> 0, tmp |-> 0, data |-> <<>>, committed |-> 0]
NoWriter == [pc |-> "idle", ver |-> 0]
NoReader == [pc |-> "idle", ino |-> 0, got |-> <<>>, opened |-> 0]
\* a trigger left at the shared path bench_vault/wake_trigger.json by another job
ForeignTrigger == [exists |-> TRUE, reason |-> "foreign", attempt |-> 0]

\* the exit code of a child ended by os.killpg(pid, 9), and the sentinel
KilledRc == -9
TimeoutRc == -1
WashoutCode == 3
\* max(5.0, poll_s) with poll_s <= 1 s, and the cap of the backoff, in halves
CountdownS == 5
BackoffCapHalves == 12
\* the default of --restart-backoff-s, which main() runs with
DefaultBackoffS == 5

\* ------------------------------------------------------------- persistence
\* an existence check that never sees the file
TriggerOutstanding_never == FALSE

\* "wake_trigger.exists()" in front of the heartbeat, washout and crash writes
TriggerOutstanding == wake_trigger.exists

\* an append that opens the file with mode "w"
append_line_truncating(f, line) == <<line>>

\* _append_line: open(path, "a") and write one line
append_line(f, line) == Append(f, line)

\* successive calls of _append_line
RECURSIVE append_lines(_, _)
append_lines(f, lines) ==
    IF lines = <<>> THEN f
    ELSE append_lines(append_line(f, Head(lines)), Tail(lines))

\* _jsonl_append: open(path, "a") and write one JSON line
jsonl_append(f, payload) == Append(f, payload)

\* _append_failure_summary: open(summ_path, "a") and write one entry
append_failure_summary(f, entry) == Append(f, entry)

\* _atomic_write_json(wake_trigger, trig.to_json())
WriteTrigger(reason, att) ==
    /\ wake_trigger' = [exists |-> TRUE, reason |-> reason, attempt |-> att]
    /\ trig_last' = [exists |-> TRUE, reason |-> reason,
                     replaced |-> wake_trigger.exists]

\* a snapshot write that leaves an existing snapshot in place
WatchdogState_stale(stage, reason, kc) ==
    IF wd_state.exists THEN wd_state
    ELSE [exists |-> TRUE, stage |-> stage, reason |-> reason, kill_count |-> kc]

\* the payload of job.json: of the arguments it records, the one the
\* watchdog is switched by, as given on the command line
JobConfig(w) == [exists |-> TRUE, watchdog_no_output_s |-> w]

\* _write_watchdog_state
WatchdogState(stage, reason, kc) ==
    [exists |-> TRUE, stage |-> stage, reason |-> reason, kill_count |-> kc]

\* the payload of _jsonl_append(wd_events_path, ...)
WatchdogEvent(stage, reason, att) ==
    [stage |-> stage, reason |-> reason, attempt |-> att]

\* the heading _append_failure_summary appends
FailureEntry(stage, reason, att) ==
    [stage |-> stage, reason |-> reason, attempt |-> att]

\* _write_log_tail: the tail as of this attempt and failure count
LogTail(att, f) == [exists |-> TRUE, attempt |-> att, failures |-> f]

\* _kill_pid_tree: best effort, and a no-op on a child that is gone
KillPidTree(c, why) ==
    IF c.st = "running" THEN [c EXCEPT !.st = "killed", !.by = why] ELSE c

\* ------------------------------------------------------------------- Init
Init ==
    /\ pc = "start"
    /\ max_restarts = 0 /\ abort_after_kills = 0 /\ stop_on_success = TRUE
    /\ hb_s = 0 /\ watchdog_s = 0 /\ surge_s = 0 /\ spill_s = 0
    /\ restart_backoff_s = 0
    /\ attempt = 0 /\ failures = 0 /\ kill_count = 0 /\ exit_code = 0
    /\ stage_prev = OK /\ stage_now = OK /\ degrade_level = ""
    /\ abort_job = FALSE /\ rc = 0
    /\ idle = 0 /\ hb_idle = 0 /\ status_idle = 0 /\ elapsed = 0
    /\ backoff = 0
    /\ stopped_by = ""
    /\ child = NoChild /\ moved = FALSE
    /\ stop_file = FALSE /\ stop_seen = ""
    /\ env_events = 0
    /\ wake_trigger \in {NoFile, ForeignTrigger}
    /\ trig_last = NoFile
    /\ job_json = NoFile /\ state_json = NoFile /\ wd_state = NoFile
    /\ wd_events = <<>> /\ failure_summary = <<>> /\ log_tail = NoFile
    /\ degrade_file = NoFile /\ sup_log = <<>> /\ status_log = <<>>
    /\ call = NoCall /\ call0 = NoCall
    /\ disk = NoDisk /\ writer = NoWriter /\ reader = NoReader
    /\ out_log = <<>> /\ orphans = {}
    /\ breach_calls = <<>> /\ degrade_writes = <<>>

\* ------------------------------------- main(): arguments and startup writes
Startup ==
    /\ pc = "start"
    /\ \E w \in -1 .. MaxWatchdogS, s \in 0 .. MaxWatchdogS, p \in 0 .. MaxWatchdogS,
          mr \in -1 .. MaxRestarts, ab \in -1 .. MaxAbortAfterKills,
          sos \in BOOLEAN, hb \in 0 .. MaxHeartbeatS :
        /\ max_restarts' = mr
        /\ abort_after_kills' = Max(0, ab)
        /\ stop_on_success' = sos
        /\ hb_s' = Sec(Max(0, hb))
        /\ watchdog_s' = WatchdogArg(w)
        /\ surge_s' = DerivedSurge(w, s)
        /\ spill_s' = DerivedSpill(w, s, p)
        /\ restart_backoff_s' = DefaultBackoffS
        /\ job_json' = JobConfig(w)
        /\ sup_log' = IF WatchdogArg(w) > 0
                      THEN append_lines(sup_log, <<"start", "cmd", "job_root", "clock">>)
                      ELSE append_lines(sup_log, <<"start", "cmd", "job_root">>)
        /\ status_log' = IF WatchdogArg(w) > 0
                         THEN append_line(status_log, "armed") ELSE status_log
        /\ wd_state' = IF WatchdogArg(w) > 0
                       THEN WatchdogState(OK, "armed", kill_count) ELSE wd_state
        /\ wd_events' = IF WatchdogArg(w) > 0
                        THEN jsonl_append(wd_events, WatchdogEvent(OK, "armed", attempt))
                        ELSE wd_events
    /\ pc' = "outer"
    /\ UNCHANGED <<counters, locals, clocks, backoff, stopped_by,
                   environment, trigger, state_json, failure_summary, log_tail,
                   degrade_file, calls, atomic, history,
                   childlogs>>


\* ------------------------------------------- main(): head of the attempt loop
\* a head of the attempt loop that does not look at the stop file
OuterStopRequested_never == FALSE

\* "stop_file is not None and stop_file.exists()" at the head of the attempt loop
OuterStopRequested == stop_file

\* a restart limit that is one too large
RestartsExhausted_late == failures > max_restarts + 1

\* "failures > int(args.max_restarts)"
RestartsExhausted == failures > max_restarts

\* failure accounting that counts every failure twice
CountFailure_twice(f) == f + 2

\* "failures += 1", after a failed spawn and after a failed attempt
CountFailure(f) == f + 1

\* a backoff without its cap
Backoff_uncapped(base, f) == base * (2 + f)

\* "float(args.restart_backoff_s) * min(6.0, 1.0 + 0.5 * float(failures))",
\* in half seconds: base seconds times (2 + failures) halves, capped at 12
Backoff(base, f) == base * Min(BackoffCapHalves, 2 + f)

\* a failed spawn that is retried without a sleep
SpawnBackoff_none(base) == 0

\* "time.sleep(float(args.restart_backoff_s))" after a failed spawn
SpawnBackoff(base) == 2 * base

\* "if stop_file is not None and stop_file.exists(): ... break"
OuterStop ==
    /\ pc = "outer"
    /\ OuterStopRequested
    /\ stop_seen' = "outer"
    /\ sup_log' = append_lines(sup_log, <<"stop_file exists (stopping)", "supervisor exit">>)
    /\ stopped_by' = "stop_file"
    /\ pc' = "done"
    /\ UNCHANGED <<config, counters, locals, clocks, backoff, child,
                   moved, stop_file, env_events, trigger, job_json,
                   state_json, wd_state, wd_events,
                   failure_summary, log_tail, degrade_file, status_log, calls, atomic, history,
                   childlogs>>

\* "if failures > int(args.max_restarts): ... break"
OuterMaxRestarts ==
    /\ pc = "outer"
    /\ ~OuterStopRequested
    /\ RestartsExhausted
    /\ sup_log' = append_lines(sup_log, <<"max restarts exceeded", "supervisor exit">>)
    /\ IF watchdog_s > 0
       THEN /\ failure_summary' =
                  append_failure_summary(failure_summary, FailureEntry(WASHOUT, "max_restarts", attempt))
            /\ log_tail' = LogTail(attempt, failures)
            /\ wd_state' = WatchdogState(WASHOUT, "max_restarts", kill_count)
            /\ wd_events' =
                  jsonl_append(wd_events, WatchdogEvent(WASHOUT, "max_restarts", attempt))
            /\ status_log' = append_line(status_log, "WASHOUT: max_restarts")
       ELSE UNCHANGED <<failure_summary, log_tail, wd_state, wd_events, status_log>>
    /\ WriteTrigger("max_restarts", attempt)
    /\ stopped_by' = "max_restarts"
    /\ pc' = "done"
    /\ UNCHANGED <<config, counters, locals, clocks, backoff, environment,
                   job_json, state_json, degrade_file, calls, atomic, history,
                   childlogs>>

\* a spawn that never passes the hint on
DegradeHint_never == ""

\* the level main() reads back from degrade_mode.json for the child's environment
DegradeHint == IF degrade_file.exists THEN degrade_file.level ELSE ""

\* an attempt number that is not the next one
NextAttempt_skip(a) == a + 2

\* "attempt += 1" at the head of an attempt
NextAttempt(a) == a + 1

\* an environment that is prepared before the counter is incremented
EnvAttempt_stale(a) == a - 1

\* 'env["VRX_SUPERVISOR_ATTEMPT"] = str(int(attempt))', with the counter a
\* as it is after "attempt += 1"
EnvAttempt(a) == a

\* a no-output clock that is carried over from the previous attempt
LastActivity_carried(start) == idle

\* "last_activity = start_mono": the time without output at a spawn, with
\* start the time since start_mono
LastActivity(start) == start

\* "attempt += 1 ... child = subprocess.Popen(...)" and the per-attempt resets.
\* The child's logs are opened with mode "ab" and handed to the child: the
\* supervisor writes nothing to them. A previous child whose exit was not
\* obtained within the bounded wait (rc = -1) is left behind with the same
\* two files open.
SpawnChild ==
    /\ pc = "outer"
    /\ ~OuterStopRequested
    /\ ~RestartsExhausted
    /\ attempt' = NextAttempt(attempt)
    /\ sup_log' = append_line(sup_log, "launching child")
    /\ child' = [st |-> "running", rc |-> 0, attempt |-> EnvAttempt(NextAttempt(attempt)),
                 degrade |-> DegradeHint, by |-> ""]
    /\ state_json' = [exists |-> TRUE, attempt |-> NextAttempt(attempt),
                      failures |-> failures, child_running |-> TRUE,
                      child_exit_code |-> 0]
    /\ elapsed' = 0
    /\ idle' = LastActivity(0)
    /\ hb_idle' = 0
    /\ status_idle' = Sec(CountdownS)
    /\ moved' = FALSE
    /\ degrade_level' = ""
    /\ stage_prev' = OK
    /\ abort_job' = FALSE
    /\ orphans' = IF child.st = "lingering" THEN orphans \cup {child.attempt}
                  ELSE orphans
    /\ pc' = "inner"
    /\ UNCHANGED <<config, failures, kill_count, exit_code, stage_now, rc,
                   backoff, stopped_by, stop_file, stop_seen, env_events,
                   trigger, job_json, wd_state, wd_events, failure_summary,
                   log_tail, degrade_file, status_log, out_log, calls, atomic, history>>

\* "except Exception as e: failures += 1 ... time.sleep(restart_backoff_s); continue"
SpawnFails ==
    /\ pc = "outer"
    /\ ~OuterStopRequested
    /\ ~RestartsExhausted
    /\ attempt' = NextAttempt(attempt)
    /\ failures' = CountFailure(failures)
    /\ sup_log' = append_lines(sup_log, <<"launching child", "failed to launch child">>)
    /\ backoff' = SpawnBackoff(restart_backoff_s)
    /\ pc' = "outer"
    /\ UNCHANGED <<config, kill_count, exit_code, locals, clocks, stopped_by,
                   environment, trigger, job_json, state_json, wd_state,
                   wd_events, failure_summary, log_tail, degrade_file,
                   status_log, calls, atomic, history,
                   childlogs>>

\* --------------------------------------------------- main(): the poll loop
\* "if stop_file is not None and stop_file.exists(): _kill_pid_tree(...); break"
PollStop ==
    /\ pc = "inner"
    /\ stop_file
    /\ sup_log' = append_line(sup_log, "stop_file exists (killing child)")
    /\ child' = KillPidTree(child, "stop_file")
    /\ stop_seen' = "inner"
    /\ pc' = "post"
    /\ UNCHANGED <<config, counters, locals, clocks, backoff, stopped_by,
                   moved, stop_file, env_events, trigger, job_json,
                   state_json, wd_state, wd_events, failure_summary, log_tail,
                   degrade_file, status_log, calls, atomic, history,
                   childlogs>>

\* "rc = child.poll(); if rc is not None: break"
PollExited ==
    /\ pc = "inner"
    /\ ~stop_file
    /\ child.st = "exited"
    /\ pc' = "post"
    /\ UNCHANGED <<config, counters, locals, clocks, backoff, stopped_by,
                   environment, trigger, files, calls, atomic, history, childlogs>>


\* an abort that writes its records and forgets the flag
MarkAbort_forgotten(flag, abort) == flag

\* "abort_job = True" under the abort decision; the flag is False otherwise
MarkAbort(flag, abort) == flag \/ abort

\* a kill that is counted twice
CountKill_twice(k) == k + 2

\* "kill_count += 1" in the BREACH handling
CountKill(k) == k + 1

\* an abort decision that takes "no limit" for a limit of zero kills
AbortAfterKills_unconfigured(kills) == kills >= abort_after_kills

\* an abort decision that is one kill late
AbortAfterKills_late(kills) == abort_after_kills > 0 /\ kills > abort_after_kills

\* "abort_after_kills > 0 and kill_count >= abort_after_kills"
AbortAfterKills(kills) == abort_after_kills > 0 /\ kills >= abort_after_kills

\* a watchdog that never acts on a breach
WatchdogBreach_never(now) == FALSE

\* "watchdog_s > 0.0 and stage_now == WatchdogStage.BREACH"
WatchdogBreach(now) == watchdog_s > 0 /\ now = BREACH

\* a transition test that only sees an escalation
StageChanged_escalation(now, prev) == now > prev /\ watchdog_s > 0

\* "stage_now != stage_prev and watchdog_s > 0.0"
StageChanged(now, prev) == now # prev /\ watchdog_s > 0

\* a BREACH handling that kills first and writes the artifacts afterwards
BreachCalls_kill_first(abort) ==
    <<"_append_line", "_kill_pid_tree", "_append_failure_summary",
      "_write_log_tail", "kill_count += 1">>
    \o (IF abort
        THEN <<"abort_job = True", "_append_failure_summary",
               "_write_watchdog_state", "_jsonl_append", "_append_line">>
        ELSE <<>>)
    \o <<"time.sleep", "break">>

\* the statements of "if watchdog_s > 0.0 and stage_now == BREACH:", in order
BreachCalls(abort) ==
    <<"_append_line", "_append_failure_summary", "_write_log_tail",
      "kill_count += 1">>
    \o (IF abort
        THEN <<"abort_job = True", "_append_failure_summary",
               "_write_watchdog_state", "_jsonl_append", "_append_line">>
        ELSE <<>>)
    \o <<"_kill_pid_tree", "time.sleep", "break">>

\* a degrade signal that is written on every entry into SPILL
SpillFirst_every(now, level) == now = SPILL

\* "stage_now == WatchdogStage.SPILL and degrade_level != 'spill'"
SpillFirst(now, level) == now = SPILL /\ level # "spill"

\* a clock that a change of the output files does not reset
NoOutput_unreset(changed, since) == since

\* "if out_sz != last_out_sz or err_sz != last_err_sz: last_activity =
\* time.monotonic()" and "no_output_s = time.monotonic() - last_activity"
NoOutput(changed, since) == IF changed THEN 0 ELSE since

\* a clock that does not advance over a sleep
PollSleeps_frozen == {0}

\* how long one time.sleep(poll_s) can take
PollSleeps == {Sec(k) : k \in 1 .. MaxPollS}

\* One pass of the poll loop over a running child, with no stop file: the
\* size check, the classification, the transition, the countdown line, the
\* BREACH handling, the heartbeat and the sleep.
PollTick ==
    /\ pc = "inner"
    /\ ~stop_file
    /\ child.st = "running"
    /\ \E d \in PollSleeps :
        LET no_output_s == NoOutput(moved, idle)
            now == compute_watchdog_stage(no_output_s, surge_s, spill_s, watchdog_s)
            trans == StageChanged(now, stage_prev)
            reason == IF now < stage_prev THEN "output_resumed" ELSE "no_output"
            spill_first == trans /\ SpillFirst(now, degrade_level)
            prev1 == IF trans THEN now ELSE stage_prev
            countdown == /\ watchdog_s > 0
                         /\ prev1 >= SURGE
                         /\ status_idle >= Sec(CountdownS)
            breach == WatchdogBreach(now)
            kills1 == IF breach THEN CountKill(kill_count) ELSE kill_count
            abort == breach /\ AbortAfterKills(kills1)
            beat == ~breach /\ hb_s > 0 /\ hb_idle >= hb_s
            events1 == IF trans
                       THEN jsonl_append(wd_events, WatchdogEvent(now, reason, attempt))
                       ELSE wd_events
            state1 == IF trans THEN WatchdogState(now, reason, kill_count)
                      ELSE wd_state
            status1 == IF trans THEN append_line(status_log, StageName(now))
                       ELSE status_log
            status2 == IF countdown THEN append_line(status1, "clock") ELSE status1
            summary1 == IF breach
                        THEN append_failure_summary(failure_summary,
                                    FailureEntry(BREACH, "no_output", attempt))
                        ELSE failure_summary
            log1 == IF breach THEN append_line(sup_log, "watchdog: killing child")
                    ELSE sup_log
        IN  /\ moved' = FALSE
            /\ stage_now' = now
            /\ stage_prev' = prev1
            /\ degrade_level' = IF spill_first THEN "spill" ELSE degrade_level
            /\ degrade_file' = IF spill_first
                               THEN [exists |-> TRUE, level |-> "spill"]
                               ELSE degrade_file
            /\ kill_count' = kills1
            /\ abort_job' = MarkAbort(abort_job, abort)
            /\ wd_events' = IF abort
                            THEN jsonl_append(events1, WatchdogEvent(WASHOUT,
                                                 "abort_after_kills", attempt))
                            ELSE events1
            /\ wd_state' = IF abort
                           THEN WatchdogState(WASHOUT, "abort_after_kills", kills1)
                           ELSE state1
            /\ status_log' = IF abort
                             THEN append_line(status2, "WASHOUT: abort_after_kills")
                             ELSE status2
            /\ failure_summary' =
                  IF abort
                  THEN append_failure_summary(summary1, FailureEntry(WASHOUT, "abort_after_kills",
                                                     attempt))
                  ELSE summary1
            /\ log_tail' = IF breach THEN LogTail(attempt, failures) ELSE log_tail
            /\ child' = IF breach THEN KillPidTree(child, "watchdog") ELSE child
            /\ breach_calls' = IF breach THEN BreachCalls(abort) ELSE breach_calls
            /\ degrade_writes' = IF spill_first
                                 THEN Append(degrade_writes, attempt)
                                 ELSE degrade_writes
            /\ IF beat /\ ~TriggerOutstanding
               THEN /\ WriteTrigger("heartbeat", attempt)
                    /\ sup_log' = append_line(log1, "wrote heartbeat wake trigger")
               ELSE /\ UNCHANGED trigger
                    /\ sup_log' = log1
            /\ IF breach
               THEN /\ pc' = "post"
                    /\ UNCHANGED clocks
               ELSE /\ pc' = "inner"
                    /\ idle' = Min(no_output_s + d, watchdog_s)
                    /\ hb_idle' = Min((IF beat THEN 0 ELSE hb_idle) + d, hb_s)
                    /\ status_idle' = Min((IF countdown THEN 0 ELSE status_idle) + d,
                                          Sec(CountdownS))
                    /\ elapsed' = Min(elapsed + d, watchdog_s)
    /\ UNCHANGED <<config, attempt, failures, exit_code, rc, backoff,
                   stopped_by, stop_file, stop_seen, env_events, job_json,
                   state_json, calls, atomic,
                   childlogs>>

\* ------------------------------------------ main(): after the poll loop
\* a resolution that takes the exit code of a child it did not reap for the
\* initial 0
Resolutions_unreaped_zero == {[rc |-> child.rc, st |-> "exited"]}

\* "rc = child.poll(); if rc is None: rc = child.wait(timeout=5.0) / rc = -1":
\* a killed child is either reaped within the wait or not
Resolutions ==
    IF child.st = "killed"
    THEN {[rc |-> KilledRc, st |-> "exited"], [rc |-> TimeoutRc, st |-> "lingering"]}
    ELSE {[rc |-> child.rc, st |-> "exited"]}

FinalState(r) ==
    [exists |-> TRUE, attempt |-> attempt, failures |-> failures,
     child_running |-> FALSE, child_exit_code |-> r]

\* "if abort_job: exit_code = 3 ... break"
EndAbort ==
    /\ pc = "post"
    /\ abort_job
    /\ \E r \in Resolutions :
        /\ rc' = r.rc
        /\ child' = [child EXCEPT !.st = r.st, !.rc = r.rc]
        /\ state_json' = FinalState(r.rc)
    /\ exit_code' = WashoutCode
    /\ IF ~TriggerOutstanding
       THEN /\ WriteTrigger("washout", attempt)
            /\ sup_log' = append_lines(sup_log, <<"child exit", "WASHOUT: aborting supervisor",
                                       "wrote washout wake trigger", "supervisor exit">>)
       ELSE /\ UNCHANGED trigger
            /\ sup_log' = append_lines(sup_log, <<"child exit", "WASHOUT: aborting supervisor",
                                       "supervisor exit">>)
    /\ stopped_by' = "washout"
    /\ pc' = "done"
    /\ UNCHANGED <<config, attempt, failures, kill_count, stage_prev, stage_now,
                   degrade_level, abort_job, clocks, backoff, moved,
                   stop_file, stop_seen, env_events, job_json, wd_state, wd_events,
                   failure_summary, log_tail, degrade_file, status_log, calls, atomic, history,
                   childlogs>>

\* a success test that never stops the supervisor
StopOnSuccess_never(r) == FALSE

\* "rc == 0 and bool(args.stop_on_success)"
StopOnSuccess(r) == r = 0 /\ stop_on_success

\* "if rc == 0 and bool(args.stop_on_success): ... break"
EndDone ==
    /\ pc = "post"
    /\ ~abort_job
    /\ \E r \in Resolutions :
        /\ StopOnSuccess(r.rc)
        /\ rc' = r.rc
        /\ child' = [child EXCEPT !.st = r.st, !.rc = r.rc]
        /\ state_json' = FinalState(r.rc)
    /\ WriteTrigger("done", attempt)
    /\ sup_log' = append_lines(sup_log, <<"child exit", "wrote done wake trigger",
                               "supervisor exit">>)
    /\ stopped_by' = "done"
    /\ pc' = "done"
    /\ UNCHANGED <<config, counters, stage_prev, stage_now, degrade_level,
                   abort_job, clocks, backoff, moved, stop_file,
                   stop_seen, env_events, job_json, wd_state, wd_events,
                   failure_summary,
                   log_tail, degrade_file, status_log, calls, atomic, history,
                   childlogs>>


\* "failures += 1", the crash trigger, the backoff sleep, and the next iteration
EndFailure ==
    /\ pc = "post"
    /\ ~abort_job
    /\ \E r \in Resolutions :
        /\ ~StopOnSuccess(r.rc)
        /\ rc' = r.rc
        /\ child' = [child EXCEPT !.st = r.st, !.rc = r.rc]
        /\ state_json' = FinalState(r.rc)
    /\ failures' = CountFailure(failures)
    /\ IF ~TriggerOutstanding
       THEN /\ WriteTrigger("crash", attempt)
            /\ sup_log' = append_lines(sup_log, <<"child exit", "wrote crash wake trigger",
                                       "backoff">>)
       ELSE /\ UNCHANGED trigger
            /\ sup_log' = append_lines(sup_log, <<"child exit", "backoff">>)
    /\ backoff' = Backoff(restart_backoff_s, CountFailure(failures))
    /\ pc' = "outer"
    /\ UNCHANGED <<config, attempt, kill_count, exit_code, stage_prev, stage_now,
                   degrade_level, abort_job, clocks, stopped_by, moved, stop_file,
                   stop_seen,
                   env_events, job_json, wd_state, wd_events,
                   failure_summary, log_tail, degrade_file, status_log, calls, atomic, history,
                   childlogs>>


\* ------------------------------------------------------- the environment
\* the child appends to child_stdout.log / child_stderr.log
ChildOutput ==
    /\ pc = "inner"
    /\ child.st = "running"
    /\ ~moved
    /\ env_events < MaxEnvEvents
    /\ moved' = TRUE
    /\ out_log' = Append(out_log, child.attempt)
    /\ env_events' = env_events + 1
    /\ UNCHANGED <<pc, config, counters, locals, clocks, backoff,
                   stopped_by, child, stop_file, stop_seen, trigger, files,
                   orphans, calls, atomic, history>>

\* a child of an earlier attempt that was left behind appends to the same files
OrphanOutput ==
    /\ pc = "inner"
    /\ child.st = "running"
    /\ ~moved
    /\ env_events < MaxEnvEvents
    /\ \E a \in orphans : out_log' = Append(out_log, a)
    /\ moved' = TRUE
    /\ env_events' = env_events + 1
    /\ UNCHANGED <<pc, config, counters, locals, clocks, backoff,
                   stopped_by, child, stop_file, stop_seen, trigger, files,
                   orphans, calls, atomic, history>>

\* the child exits by itself, with success or with an error
ChildExit ==
    /\ pc = "inner"
    /\ child.st = "running"
    /\ \E code \in {0, 1} : child' = [child EXCEPT !.st = "exited", !.rc = code]
    /\ UNCHANGED <<pc, config, counters, locals, clocks, backoff,
                   stopped_by, moved, stop_file, stop_seen, env_events, trigger,
                   files, calls, atomic, history,
                   childlogs>>

\* somebody creates, or removes, the stop file while the supervisor runs
StopFileCreated ==
    /\ pc \in {"outer", "inner", "post"}
    /\ ~stop_file
    /\ env_events < MaxEnvEvents
    /\ stop_file' = TRUE
    /\ env_events' = env_events + 1
    /\ UNCHANGED <<stop_seen, pc, config, counters, locals, clocks, backoff,
                   stopped_by, child, moved, trigger, files, calls, atomic, history,
                   childlogs>>

StopFileRemoved ==
    /\ pc \in {"outer", "inner", "post"}
    /\ stop_file
    /\ env_events < MaxEnvEvents
    /\ stop_file' = FALSE
    /\ stop_seen' = ""
    /\ env_events' = env_events + 1
    /\ UNCHANGED <<pc, config, counters, locals, clocks, backoff,
                   stopped_by, child, moved, trigger, files, calls, atomic, history,
                   childlogs>>

\* the external agent consumes (deletes) the wake trigger
ConsumeTrigger ==
    /\ pc \in {"outer", "inner", "post"}
    /\ wake_trigger.exists
    /\ env_events < MaxEnvEvents
    /\ wake_trigger' = NoFile
    /\ env_events' = env_events + 1
    /\ UNCHANGED <<pc, config, counters, locals, clocks, backoff,
                   stopped_by, child, moved, stop_file, stop_seen, trig_last,
                   files,
                   calls, atomic, history,
                   childlogs>>

\* ------------------------------------------------------ the specification
Next ==
    \/ Startup
    \/ OuterStop
    \/ OuterMaxRestarts
    \/ SpawnChild
    \/ SpawnFails
    \/ PollStop
    \/ PollExited
    \/ PollTick
    \/ EndAbort
    \/ EndDone
    \/ EndFailure
    \/ ChildOutput
    \/ OrphanOutput
    \/ ChildExit
    \/ StopFileCreated
    \/ StopFileRemoved
    \/ ConsumeTrigger

Spec == Init /\ [][Next]_vars

\* The steps of main() itself. Python runs them one after the other, and
\* every blocking call in them is bounded (time.sleep(poll_s), the backoff
\* sleep, child.wait(timeout=5.0)), so a step that stays possible is taken;
\* nothing is assumed about the child, the stop file or the trigger's consumer.
SupervisorStep ==
    \/ Startup
    \/ OuterStop
    \/ OuterMaxRestarts
    \/ SpawnChild
    \/ SpawnFails
    \/ PollStop
    \/ PollExited
    \/ PollTick
    \/ EndAbort
    \/ EndDone
    \/ EndFailure

SpecLive == Init /\ [][Next]_vars /\ WF_vars(SupervisorStep)


\* --------------------------------------------- the classifier on its own
\* The thresholds and elapsed times of test_compute_watchdog_stage
\* (surge 3.0, spill 7.0, breach 10.0; 0.0, 3.0, 6.9, 7.0, 9.9, 10.0, 999.0).
TestThresholds == <<Sec(3), Sec(7), Sec(10)>>
TestElapsed == {Tenths(0), Tenths(30), Tenths(69), Tenths(70), Tenths(99),
                Tenths(100), Tenths(9990)}

ThresholdValues == {Sec(n) : n \in -1 .. MaxThresholdS}
ThresholdTriples ==
    (ThresholdValues \X ThresholdValues \X ThresholdValues) \cup {TestThresholds}
ElapsedValues == {Thirds(k) : k \in 0 .. 3 * MaxThresholdS + 3} \cup TestElapsed

InitStage ==
    /\ pc = "classify"
    /\ \E th \in ThresholdTriples :
        /\ surge_s = th[1] /\ spill_s = th[2] /\ watchdog_s = th[3]
    /\ max_restarts = 0 /\ abort_after_kills = 0 /\ stop_on_success = TRUE
    /\ hb_s = 0 /\ restart_backoff_s = 0
    /\ attempt = 0 /\ failures = 0 /\ kill_count = 0 /\ exit_code = 0
    /\ stage_prev = OK /\ stage_now = OK /\ degrade_level = ""
    /\ abort_job = FALSE /\ rc = 0
    /\ idle = 0 /\ hb_idle = 0 /\ status_idle = 0 /\ elapsed = 0
    /\ backoff = 0
    /\ stopped_by = ""
    /\ child = NoChild /\ moved = FALSE /\ stop_file = FALSE /\ stop_seen = ""
    /\ env_events = 0
    /\ wake_trigger = NoFile /\ trig_last = NoFile
    /\ job_json = NoFile /\ state_json = NoFile /\ wd_state = NoFile
    /\ wd_events = <<>> /\ failure_summary = <<>> /\ log_tail = NoFile
    /\ degrade_file = NoFile /\ sup_log = <<>> /\ status_log = <<>>
    /\ call = NoCall /\ call0 = NoCall
    /\ disk = NoDisk /\ writer = NoWriter /\ reader = NoReader
    /\ out_log = <<>> /\ orphans = {}
    /\ breach_calls = <<>> /\ degrade_writes = <<>>

\* one call _compute_watchdog_stage(no_output_s, surge_s, spill_s, watchdog_s)
Classify ==
    /\ pc = "classify"
    /\ \E e \in ElapsedValues :
        call' = [made |-> TRUE, no_output_s |-> e,
                 stage |-> compute_watchdog_stage(e, surge_s, spill_s, watchdog_s)]
    /\ call0' = call
    /\ UNCHANGED <<pc, config, counters, locals, clocks, backoff,
                   stopped_by, environment, trigger, files, atomic, history, childlogs>>

NextStage == Classify

SpecStage == InitStage /\ [][NextStage]_vars


\* ------------------------------------------------ the backoff on its own
\* A supervisor with any number of failures behind it and any base backoff,
\* at the two places where it sleeps between two attempts.
InitBackoff ==
    /\ pc = "backoff"
    /\ restart_backoff_s \in 0 .. MaxBackoffS
    /\ failures \in 0 .. MaxFailures
    /\ attempt = failures
    /\ max_restarts = MaxFailures /\ abort_after_kills = 0 /\ stop_on_success = TRUE
    /\ hb_s = 0 /\ watchdog_s = 0 /\ surge_s = 0 /\ spill_s = 0
    /\ kill_count = 0 /\ exit_code = 0
    /\ stage_prev = OK /\ stage_now = OK /\ degrade_level = ""
    /\ abort_job = FALSE /\ rc = 0
    /\ idle = 0 /\ hb_idle = 0 /\ status_idle = 0 /\ elapsed = 0
    /\ backoff = 0
    /\ stopped_by = ""
    /\ child = NoChild /\ moved = FALSE /\ stop_file = FALSE /\ stop_seen = ""
    /\ env_events = 0
    /\ wake_trigger = NoFile /\ trig_last = NoFile
    /\ job_json = NoFile /\ state_json = NoFile /\ wd_state = NoFile
    /\ wd_events = <<>> /\ failure_summary = <<>> /\ log_tail = NoFile
    /\ degrade_file = NoFile /\ sup_log = <<>> /\ status_log = <<>>
    /\ call = NoCall /\ call0 = NoCall
    /\ disk = NoDisk /\ writer = NoWriter /\ reader = NoReader
    /\ out_log = <<>> /\ orphans = {}
    /\ breach_calls = <<>> /\ degrade_writes = <<>>

\* "failures += 1 ... backoff = ...; time.sleep(backoff)" at the end of an attempt
SleepAfterFailure ==
    /\ pc = "backoff"
    /\ ~RestartsExhausted
    /\ attempt' = NextAttempt(attempt)
    /\ failures' = CountFailure(failures)
    /\ rc' = 1
    /\ backoff' = Backoff(restart_backoff_s, CountFailure(failures))
    /\ UNCHANGED <<pc, config, kill_count, exit_code, stage_prev, stage_now,
                   degrade_level, abort_job, clocks, stopped_by, environment,
                   trigger, files, calls, atomic, history,
                   childlogs>>

\* "failures += 1 ... time.sleep(float(args.restart_backoff_s))" after a failed spawn
SleepAfterSpawnFailure ==
    /\ pc = "backoff"
    /\ ~RestartsExhausted
    /\ attempt' = NextAttempt(attempt)
    /\ failures' = CountFailure(failures)
    /\ backoff' = SpawnBackoff(restart_backoff_s)
    /\ UNCHANGED <<pc, config, kill_count, exit_code, stage_prev, stage_now,
                   degrade_level, abort_job, rc, clocks, stopped_by, environment,
                   trigger, files, calls, atomic, history,
                   childlogs>>

NextBackoff ==
    \/ SleepAfterFailure
    \/ SleepAfterSpawnFailure

SpecBackoff == InitBackoff /\ [][NextBackoff]_vars


\* ------------------------------------- _atomic_write_json on its own
\* One snapshot path (state.json, watchdog_state.json or job.json) and its
\* sibling .tmp path. A path names an inode (0: no such file); disk.data[i] is
\* the content of inode i, the chunks written so far, each tagged with the
\* version of the payload it belongs to. disk.committed is the version of
\* the payload last renamed into place.
InitWrite ==
    /\ pc = "write"
    /\ disk = NoDisk /\ writer = NoWriter /\ reader = NoReader
    /\ out_log = <<>> /\ orphans = {}
    /\ breach_calls = <<>> /\ degrade_writes = <<>>
    /\ max_restarts = 0 /\ abort_after_kills = 0 /\ stop_on_success = TRUE
    /\ hb_s = 0 /\ watchdog_s = 0 /\ surge_s = 0 /\ spill_s = 0
    /\ restart_backoff_s = 0
    /\ attempt = 0 /\ failures = 0 /\ kill_count = 0 /\ exit_code = 0
    /\ stage_prev = OK /\ stage_now = OK /\ degrade_level = ""
    /\ abort_job = FALSE /\ rc = 0
    /\ idle = 0 /\ hb_idle = 0 /\ status_idle = 0 /\ elapsed = 0
    /\ backoff = 0
    /\ stopped_by = ""
    /\ child = NoChild /\ moved = FALSE /\ stop_file = FALSE /\ stop_seen = ""
    /\ env_events = 0
    /\ wake_trigger = NoFile /\ trig_last = NoFile
    /\ job_json = NoFile /\ state_json = NoFile /\ wd_state = NoFile
    /\ wd_events = <<>> /\ failure_summary = <<>> /\ log_tail = NoFile
    /\ degrade_file = NoFile /\ sup_log = <<>> /\ status_log = <<>>
    /\ call = NoCall /\ call0 = NoCall

supervisor == <<config, counters, locals, clocks, backoff, stopped_by,
                environment, trigger, files, calls, childlogs, history>>

\* a writer that writes the text straight into the destination
WriteTarget_destination == "dest"

\* "tmp = path.with_suffix(path.suffix + '.tmp')": the path write_text opens
WriteTarget == "tmp"

\* "tmp.write_text(...)", the open: mode "w" creates the file, or truncates
\* the inode of a file a killed writer left behind
OpenTmp ==
    /\ pc = "write"
    /\ writer.pc = "idle" /\ writer.ver < MaxWrites
    /\ writer' = [pc |-> "open", ver |-> writer.ver + 1]
    /\ disk' = IF disk[WriteTarget] = 0
               THEN [disk EXCEPT ![WriteTarget] = Len(disk.data) + 1,
                                 !.data = Append(disk.data, <<>>)]
               ELSE [disk EXCEPT !.data[disk[WriteTarget]] = <<>>]
    /\ UNCHANGED <<pc, supervisor, reader>>

\* "tmp.write_text(...)", one write() of the text; the last one closes the file
WriteChunk ==
    /\ pc = "write"
    /\ writer.pc = "open"
    /\ LET ino == disk[WriteTarget]
           text == Append(disk.data[ino], writer.ver)
       IN  /\ disk' = [disk EXCEPT !.data[ino] = text]
           /\ writer' = IF Len(text) = MaxChunks
                         THEN [writer EXCEPT !.pc = "written"] ELSE writer
    /\ UNCHANGED <<pc, supervisor, reader>>

\* "tmp.replace(path)": the destination now names the inode of the .tmp file
Rename ==
    /\ pc = "write"
    /\ writer.pc = "written"
    /\ disk.tmp # 0
    /\ disk' = [disk EXCEPT !.dest = disk.tmp, !.tmp = 0, !.committed = writer.ver]
    /\ writer' = [writer EXCEPT !.pc = "idle"]
    /\ UNCHANGED <<pc, supervisor, reader>>

\* the supervisor is killed inside _atomic_write_json; the next supervisor
\* on the same job root starts its write from the beginning
WriterKilled ==
    /\ pc = "write"
    /\ writer.pc \in {"open", "written"}
    /\ writer' = [writer EXCEPT !.pc = "idle"]
    /\ UNCHANGED <<pc, supervisor, disk, reader>>

\* the passive reader: open() of the snapshot path binds it to an inode
ReaderOpen ==
    /\ pc = "write"
    /\ reader.pc = "idle"
    /\ disk.dest # 0
    /\ reader' = [pc |-> "reading", ino |-> disk.dest, got |-> <<>>,
                  opened |-> disk.committed]
    /\ UNCHANGED <<pc, supervisor, disk, writer>>

\* one read() of the open file: the next chunk, or the end of the file
ReaderRead ==
    /\ pc = "write"
    /\ reader.pc = "reading"
    /\ LET text == disk.data[reader.ino]
       IN  reader' = IF Len(reader.got) < Len(text)
                     THEN [reader EXCEPT !.got = Append(@, text[Len(@) + 1])]
                     ELSE [reader EXCEPT !.pc = "done"]
    /\ UNCHANGED <<pc, supervisor, disk, writer>>

ReaderClose ==
    /\ pc = "write"
    /\ reader.pc = "done"
    /\ reader' = NoReader
    /\ UNCHANGED <<pc, supervisor, disk, writer>>

NextWrite ==
    \/ OpenTmp
    \/ WriteChunk
    \/ Rename
    \/ WriterKilled
    \/ ReaderOpen
    \/ ReaderRead
    \/ ReaderClose

SpecWrite == InitWrite /\ [][NextWrite]_vars


\* ================================================================ claims
Ordered == 0 < surge_s /\ surge_s < spill_s /\ spill_s < watchdog_s

\* C1: with 0 < surge < spill < breach the classifier is monotone
\* non-decreasing in the elapsed time (of two calls, the one with the larger
\* elapsed time returns no smaller stage), and it returns BREACH if and only
\* if elapsed >= breach.
C1_MonotoneBreach ==
    (Ordered /\ call.made) =>
        /\ (call.stage = BREACH) <=> (call.no_output_s >= watchdog_s)
        /\ (call0.made /\ call0.no_output_s <= call.no_output_s)
               => call0.stage <= call.stage
        /\ (call0.made /\ call.no_output_s <= call0.no_output_s)
               => call.stage <= call0.stage

C1_Witness ==
    /\ Ordered /\ call.made /\ call0.made
    /\ call0.no_output_s < call.no_output_s
    /\ call0.stage = SPILL /\ call.stage = BREACH
    /\ call.no_output_s = watchdog_s

\* the stages test_compute_watchdog_stage expects
TestExpected(e) ==
    CASE e = Tenths(0) -> OK
      [] e = Tenths(30) -> SURGE
      [] e = Tenths(69) -> SURGE
      [] e = Tenths(70) -> SPILL
      [] e = Tenths(99) -> SPILL
      [] e = Tenths(100) -> BREACH
      [] e = Tenths(9990) -> BREACH

\* C2: with ordered thresholds every stage boundary is inclusive on its
\* lower side: OK exactly below surge, SURGE exactly on [surge, spill),
\* SPILL exactly on [spill, breach), BREACH exactly from breach on; and for
\* surge 3, spill 7, breach 10 the seven elapsed times of the test classify
\* as the test expects.
C2_Boundaries ==
    (Ordered /\ call.made) =>
        LET e == call.no_output_s
            s == call.stage
        IN  /\ (s = OK) <=> (e < surge_s)
            /\ (s = SURGE) <=> (surge_s <= e /\ e < spill_s)
            /\ (s = SPILL) <=> (spill_s <= e /\ e < watchdog_s)
            /\ (s = BREACH) <=> (e >= watchdog_s)
            /\ (<<surge_s, spill_s, watchdog_s>> = TestThresholds /\ e \in TestElapsed)
                   => s = TestExpected(e)

C2_Witness ==
    /\ <<surge_s, spill_s, watchdog_s>> = TestThresholds
    /\ call.made /\ call0.made
    /\ call0.no_output_s = Tenths(69) /\ call0.stage = SURGE
    /\ call.no_output_s = Tenths(70) /\ call.stage = SPILL

\* C3: with breach <= 0 the watchdog is disabled and the classifier returns
\* OK whatever the elapsed time and the other two thresholds are.
C3_DisabledIsOK ==
    (watchdog_s <= 0 /\ call.made) => call.stage = OK

C3_Witness ==
    /\ watchdog_s = 0 /\ surge_s > 0 /\ spill_s > surge_s
    /\ call.made /\ call.no_output_s >= spill_s /\ call.stage = OK

\* C4: whenever --watchdog-no-output-s > 0, whatever --watchdog-surge-s and
\* --watchdog-spill-s are, the thresholds main() derives at startup satisfy
\* 0 < surge < spill < breach.
C4_ThresholdsOrdered ==
    (pc \notin {"start", "classify"} /\ watchdog_s > 0) => Ordered


HasWashoutEvent == \E i \in 1 .. Len(wd_events) : wd_events[i].stage = WASHOUT

\* C5: once the kill counter has reached a configured abort_after_kills > 0,
\* the supervisor spawns no other attempt (it is past the poll loop of the
\* attempt that was killed, marked for abort, or has returned), and when it
\* has returned its exit code is 3, watchdog_state.json holds stage WASHOUT,
\* watchdog_events.jsonl has a WASHOUT event, failure_summary.md and
\* child_log_tail.txt are written, supervisor.log is non-empty and a
\* wake-trigger file exists.
C5_WashoutAbort ==
    (abort_after_kills > 0 /\ kill_count >= abort_after_kills) =>
        /\ pc \in {"post", "done"}
        /\ child.attempt = attempt
        /\ pc = "post" => abort_job /\ ENABLED EndAbort
        /\ pc = "done" =>
            /\ exit_code = 3
            /\ wd_state.exists /\ wd_state.stage = WASHOUT
            /\ HasWashoutEvent
            /\ failure_summary # <<>>
            /\ log_tail.exists
            /\ sup_log # <<>>
            /\ wake_trigger.exists

\* the end-to-end test: a child that prints once and then hangs, with
\* abort_after_kills = 1 and max_restarts = 0
C5_Witness ==
    /\ pc = "done" /\ exit_code = 3
    /\ abort_after_kills = 1 /\ max_restarts = 0 /\ kill_count = 1
    /\ attempt = 1 /\ child.by = "watchdog"
    /\ wake_trigger.exists /\ wake_trigger.reason = "washout"

\* C6: a supervisor that stopped because failures > max_restarts returns an
\* exit code that is neither 0 nor the WASHOUT code 3, and exit code 0 is
\* returned only after the child succeeded or the stop file asked for the stop.
C6_ExitCodes ==
    pc = "done" =>
        /\ stopped_by = "max_restarts" => exit_code \notin {0, 3}
        /\ exit_code = 0 => stopped_by \in {"done", "stop_file"}

\* C7: no spawn is attempted while failures > max_restarts: with the limit
\* exceeded the supervisor is at the head of the attempt loop or has returned,
\* a stop for this reason has written the wake trigger with reason
\* max_restarts, and for max_restarts >= 0 the number of spawn attempts never
\* exceeds max_restarts + 1.
C7_RestartLimit ==
    /\ [](/\ failures > max_restarts => pc \in {"outer", "done"}
          /\ max_restarts >= 0 => attempt <= max_restarts + 1
          /\ stopped_by = "max_restarts" =>
                /\ pc = "done" /\ failures > max_restarts
                /\ wake_trigger.exists /\ wake_trigger.reason = "max_restarts")
    /\ [][attempt' # attempt => ~(failures > max_restarts)]_vars

C7_Witness ==
    /\ pc = "done" /\ stopped_by = "max_restarts"
    /\ max_restarts = 1 /\ failures = 2 /\ attempt = 2
    /\ wake_trigger.reason = "max_restarts"

\* C8: a stop file that exists when the head of the attempt loop checks it
\* ends the supervisor with exit code 0 and without another attempt; one that
\* exists when the poll loop checks it gets the child's process tree killed
\* in that tick, and while the file stays in place no other attempt is
\* spawned and the supervisor returns 0.
C8_StopFile ==
    /\ []((pc = "done" /\ stop_seen # "") => exit_code = 0)
    /\ [][/\ (pc = "outer" /\ stop_file /\ pc' # pc) =>
                (pc' = "done" /\ attempt' = attempt /\ exit_code' = 0)
          /\ (pc = "inner" /\ stop_file /\ pc' # pc) =>
                (pc' = "post" /\ child'.st # "running")
          /\ (stop_seen # "" /\ stop_seen' # "") => attempt' = attempt]_vars

C8_Witness ==
    /\ pc = "done" /\ stopped_by = "stop_file" /\ stop_seen = "outer"
    /\ child.by = "stop_file" /\ rc = KilledRc
    /\ exit_code = 0 /\ failures <= max_restarts

\* C9: after the poll loop has seen the stop file and killed the child, the
\* supervisor exits without incrementing the failure count, without writing
\* a crash wake trigger and without a restart backoff.
C9_StopIsNoFailure ==
    [][(pc = "post" /\ child.by = "stop_file" /\ pc' # pc) =>
          /\ pc' = "done"
          /\ failures' = failures
          /\ backoff' = backoff
          /\ ~(wake_trigger' # wake_trigger /\ wake_trigger'.reason = "crash")]_vars

\* C10: no write of the wake trigger, whatever its reason code, happens
\* while a wake-trigger file exists.
C10_NeverOverwrites ==
    trig_last.exists => ~trig_last.replaced

\* C11: a crash trigger and a heartbeat trigger are written only when no
\* wake-trigger file exists at the time of the check: no step that ends a
\* failed attempt or emits a heartbeat changes a trigger that exists, and the
\* last write with reason crash or heartbeat replaced nothing.
C11_CrashHeartbeatGuarded ==
    /\ []((trig_last.exists /\ trig_last.reason \in {"crash", "heartbeat"})
              => ~trig_last.replaced)
    /\ [][/\ (wake_trigger.exists /\ pc = "post" /\ pc' = "outer")
                => wake_trigger' = wake_trigger
          /\ (wake_trigger.exists /\ pc = "inner" /\ pc' = "inner")
                => wake_trigger' \in {wake_trigger, NoFile}
          /\ (wake_trigger' # wake_trigger /\ wake_trigger'.exists
                 /\ wake_trigger'.reason \in {"crash", "heartbeat"})
                => ~wake_trigger.exists]_vars

\* a failed attempt that found another job's trigger and left it alone, after
\* which the trigger was consumed and the next heartbeat was written
C11_Witness ==
    /\ failures >= 1 /\ rc = 1 /\ pc = "inner"
    /\ wake_trigger.exists /\ wake_trigger.reason = "heartbeat"
    /\ ~trig_last.replaced
    /\ "wrote crash wake trigger" \notin {sup_log[i] : i \in 1 .. Len(sup_log)}

\* C12: the step that ends an attempt with exit code 0, stop_on_success
\* enabled and no watchdog abort pending writes the wake trigger with reason
\* done, returns with exit code 0, and changes neither the failure count nor
\* the attempt counter; a supervisor that stopped this way stays stopped.
C12_DoneOnSuccess ==
    /\ [](stopped_by = "done" =>
            /\ pc = "done" /\ exit_code = 0 /\ rc = 0 /\ stop_on_success
            /\ ~ENABLED SpawnChild /\ ~ENABLED SpawnFails)
    /\ [][(pc = "post" /\ ~abort_job /\ stop_on_success /\ pc' # pc /\ rc' = 0) =>
            /\ pc' = "done" /\ stopped_by' = "done"
            /\ wake_trigger'.exists /\ wake_trigger'.reason = "done"
            /\ wake_trigger'.attempt = attempt
            /\ failures' = failures /\ attempt' = attempt
            /\ exit_code' = 0]_vars

\* the second attempt succeeds after the first one failed
C12_Witness ==
    /\ pc = "done" /\ stopped_by = "done" /\ rc = 0 /\ exit_code = 0
    /\ attempt = 2 /\ failures = 1 /\ child.st = "exited" /\ child.by = ""
    /\ wake_trigger.exists /\ wake_trigger.reason = "done"

\* C13: every attempt that ends without ending the supervisor (a nonzero
\* exit code, or exit code 0 with stop_on_success disabled, and no watchdog
\* abort pending) adds exactly one to the failure count on its way back to
\* the head of the attempt loop, so that there the failure count equals the
\* number of attempts made; with stop_on_success disabled a child that exits
\* 0 is counted like any other, and the max_restarts limit stops it.
C13_FailureAccounting ==
    /\ [](/\ pc = "outer" => failures = attempt
          /\ (~stop_on_success /\ max_restarts >= 0) => attempt <= max_restarts + 1)
    /\ [][/\ (pc = "post" /\ ~abort_job /\ pc' # pc
                 /\ ~(rc' = 0 /\ stop_on_success)) =>
                (pc' = "outer" /\ failures' = failures + 1)
          /\ (pc = "post" /\ pc' = "outer") => failures' = failures + 1]_vars

\* stop_on_success disabled, one restart allowed: the child exits 0 and the
\* supervisor stops on the max_restarts limit after the second attempt
C13_Witness ==
    /\ pc = "done" /\ stopped_by = "max_restarts"
    /\ ~stop_on_success /\ max_restarts = 1
    /\ attempt = 2 /\ failures = 2
    /\ rc = 0 /\ child.st = "exited" /\ child.by = ""
    /\ "failed to launch child" \notin {sup_log[i] : i \in 1 .. Len(sup_log)}

\* C14: for every failure count >= 0 and every base backoff >= 0, a sleep
\* between two attempts (the backoff at the end of a failed attempt, and the
\* sleep after a failed spawn) is at most 6 * restart_backoff_s, that is 12
\* half seconds per second of base.
C14_BackoffBound ==
    /\ backoff <= 12 * restart_backoff_s
    /\ Backoff(restart_backoff_s, failures) <= 12 * restart_backoff_s
    /\ SpawnBackoff(restart_backoff_s) <= 12 * restart_backoff_s

\* the cap is in effect: an uncapped backoff would be longer
C14_Witness ==
    /\ restart_backoff_s = 2 /\ failures = 12 /\ rc = 1
    /\ backoff = 12 * restart_backoff_s
    /\ Backoff_uncapped(restart_backoff_s, failures) > backoff

\* C15: after every failure that leads to a retry, a failed spawn included,
\* the sleep before the next attempt is restart_backoff_s * min(6.0, 1.0 +
\* 0.5 * failures), with failures counting the failure just counted.
C15_BackoffFormula ==
    [][(failures' = failures + 1 /\ pc' = "outer") =>
          backoff' = restart_backoff_s' * Min(12, 2 + failures')]_vars

\* the complete text of the payload of version v
Document(v) == [i \in 1 .. MaxChunks |-> v]

\* C16: a reader of a snapshot path, whose open and reads interleave in any
\* way with the steps of _atomic_write_json (open of the .tmp file, its
\* writes, the rename), ends up with a complete document: the one that was
\* in place when it opened the file, which is the previous one while a write
\* is in progress and the new one after the rename. The destination path
\* changes only by the rename, and the content of the file it names never
\* changes.
C16_AtomicReplace ==
    /\ [](/\ reader.pc = "done" => reader.got = Document(reader.opened)
          /\ disk.dest # 0 => disk.data[disk.dest] = Document(disk.committed))
    /\ [][/\ disk'.dest # disk.dest =>
                /\ writer.pc = "written" /\ writer'.pc = "idle"
                /\ disk'.dest = disk.tmp /\ disk.tmp # 0
          /\ disk.dest # 0 =>
                disk'.data[disk.dest] = disk.data[disk.dest]]_vars

\* the reader opened the file and finished reading it while the next
\* payload was half written: it holds the complete previous document
C16_Witness ==
    /\ reader.pc = "done" /\ reader.opened = 1
    /\ reader.got = Document(1)
    /\ writer.pc = "open" /\ writer.ver = 2
    /\ disk.tmp # 0 /\ Len(disk.data[disk.tmp]) = 1

IsPrefix(a, b) == Len(a) <= Len(b) /\ SubSeq(b, 1, Len(a)) = a

\* C17: watchdog_events.jsonl, the status log, supervisor.log and
\* failure_summary.md are append-only: every step of the supervisor, across
\* all attempts, leaves the content each file had as a prefix of its new
\* content.
C17_AppendOnly ==
    [][/\ IsPrefix(wd_events, wd_events')
       /\ IsPrefix(status_log, status_log')
       /\ IsPrefix(sup_log, sup_log')
       /\ IsPrefix(failure_summary, failure_summary')]_vars

\* the second attempt was killed by the watchdog like the first: all four
\* files hold the entries of both attempts
C17_Witness ==
    /\ attempt = 2 /\ kill_count = 2 /\ pc = "post"
    /\ Len(failure_summary) >= 2
    /\ failure_summary[1].attempt = 1
    /\ failure_summary[Len(failure_summary)].attempt = 2
    /\ \E i, j \in 1 .. Len(wd_events) :
          i < j /\ wd_events[i].attempt = 1 /\ wd_events[j].attempt = 2
    /\ Len(status_log) >= 3 /\ Len(sup_log) >= 8

\* C18: child_stdout.log and child_stderr.log are never truncated and never
\* written by the supervisor, and across the attempts of one job the output
\* of every earlier attempt precedes the output of every later attempt.
C18_ChildLogsInOrder ==
    \A i, j \in 1 .. Len(out_log) : i < j => out_log[i] <= out_log[j]

\* a poll tick is due on a running child that has been silent for the
\* breach threshold or longer, with the watchdog enabled
SilentAtTick ==
    /\ pc = "inner" /\ ~stop_file /\ child.st = "running"
    /\ watchdog_s > 0 /\ ~moved /\ idle >= watchdog_s

\* C19: with the watchdog enabled, a poll tick over a running child whose
\* last observed output change is at least the breach threshold ago kills
\* the child's process tree in that same tick and leaves the poll loop: the
\* tick cannot go on polling, and the step the supervisor takes counts the
\* kill, kills the child and ends the attempt.
C19_BreachKills ==
    /\ [](SilentAtTick =>
            /\ ENABLED PollTick
            /\ ~ENABLED (PollTick /\ pc' = "inner"))
    /\ [][(SilentAtTick /\ (pc' # pc \/ clocks' # clocks
                                      \/ kill_count' # kill_count)) =>
            /\ pc' = "post"
            /\ child'.st = "killed" /\ child'.by = "watchdog"
            /\ kill_count' = kill_count + 1
            /\ attempt' = attempt]_vars

\* a child that printed once and then hung was killed at the threshold,
\* with no abort pending
C19_Witness ==
    /\ pc = "post" /\ child.st = "killed" /\ child.by = "watchdog"
    /\ kill_count = 1 /\ attempt = 1 /\ ~abort_job
    /\ idle = watchdog_s /\ watchdog_s = Sec(3)
    /\ out_log = <<1>>

\* C20: with the watchdog enabled and max_restarts finite, and a child that
\* in every attempt either exits or stops producing output, the supervisor
\* eventually returns, provided main() keeps taking its steps: every such
\* run ends up for good either returned or, the one other possibility,
\* running with the watchdog disabled.
C20_Terminates ==
    <>[](pc = "done" \/ (pc # "start" /\ watchdog_s = 0))

\* every attempt hung and was killed by the watchdog until the restart
\* limit stopped the supervisor
C20_Witness ==
    /\ pc = "done" /\ watchdog_s > 0 /\ stopped_by = "max_restarts"
    /\ max_restarts = 1 /\ attempt = 2 /\ kill_count = 2
    /\ child.by = "watchdog"

\* C21: a supervisor that has returned on a fatal path (failures >
\* max_restarts, or the watchdog abort) has appended an entry to
\* failure_summary.md, written child_log_tail.txt and written
\* watchdog_state.json with stage WASHOUT, in every configuration, the
\* watchdog disabled included.
C21_FatalArtifacts ==
    (pc = "done" /\ stopped_by \in {"max_restarts", "washout"}) =>
        /\ failure_summary # <<>>
        /\ log_tail.exists
        /\ wd_state.exists /\ wd_state.stage = WASHOUT

\* a pass of the poll loop over a running child, with the watchdog enabled:
\* the only step taken there that leaves the loop, lets the clocks advance
\* or takes note of a change of the child's output files
TickStep ==
    /\ pc = "inner" /\ ~stop_file /\ child.st = "running" /\ watchdog_s > 0
    /\ (pc' = "post" \/ clocks' # clocks \/ (moved /\ ~moved'))

\* the lines a step appends to the status log that name the stage s
StageLines(s) ==
    {i \in Len(status_log) + 1 .. Len(status_log') : status_log'[i] = StageName(s)}

LastEvent == wd_events[Len(wd_events)]

\* C23: whenever main() is between two passes of its loops or has returned,
\* the stage and the reason in watchdog_state.json are those of the last
\* line of watchdog_events.jsonl; with the watchdog disabled neither file is
\* written.
C23_SnapshotIsLastEvent ==
    pc # "start" =>
        IF watchdog_s > 0
        THEN /\ wd_state.exists /\ wd_events # <<>>
             /\ wd_state.stage = LastEvent.stage
             /\ wd_state.reason = LastEvent.reason
        ELSE ~wd_state.exists /\ wd_events = <<>>

\* the second attempt's output resumed after the first one was killed at
\* BREACH: the snapshot and the last event both say OK, output_resumed
C23_Witness ==
    /\ pc = "inner" /\ attempt = 2 /\ kill_count = 1
    /\ Len(wd_events) >= 4
    /\ LastEvent = WatchdogEvent(OK, "output_resumed", 2)
    /\ wd_state.stage = OK /\ wd_state.reason = "output_resumed"

\* C24: whenever a child is running and a poll tick of its attempt has
\* completed (with the watchdog enabled the clock then reads more than
\* zero), the stage stored in watchdog_state.json is the stage that tick
\* classified, also in an attempt that follows a BREACH kill.
C24_SnapshotIsCurrentStage ==
    (pc = "inner" /\ child.st = "running" /\ watchdog_s > 0 /\ idle > 0) =>
        /\ wd_state.exists
        /\ wd_state.stage = stage_now

\* C25: once an attempt has been made, whether its spawn succeeded or
\* failed, and after every attempt end, the attempt number and the failure
\* count stored in state.json are the supervisor's attempt counter and
\* failure count.
C25_StateIsCurrent ==
    (pc \in {"outer", "inner", "post", "done"} /\ attempt > 0) =>
        /\ state_json.exists
        /\ state_json.attempt = attempt
        /\ state_json.failures = failures

\* the places of a call in what the last BREACH handling did
CallAt(name) == {i \in 1 .. Len(breach_calls) : breach_calls[i] = name}

\* the entries of failure_summary.md for a BREACH of attempt a
BreachEntries(f, a) ==
    {i \in 1 .. Len(f) : f[i] = FailureEntry(BREACH, "no_output", a)}

\* C26: a BREACH handling appends the failure summary and writes the log
\* tail before it kills the child's process tree; every BREACH adds
\* exactly one to the kill counter, in the pass that appends the summary
\* entry, writes the tail and kills the child; and no attempt is killed by
\* the watchdog twice.
C26_BreachArtifactsThenKill ==
    /\ [](/\ (kill_count > 0) = (breach_calls # <<>>)
          /\ breach_calls # <<>> =>
                /\ Cardinality(CallAt("_kill_pid_tree")) = 1
                /\ CallAt("_write_log_tail") # {}
                /\ \A k \in CallAt("_kill_pid_tree") :
                      /\ \E i \in CallAt("_append_failure_summary") : i < k
                      /\ \A i \in CallAt("_append_failure_summary")
                                     \cup CallAt("_write_log_tail") : i < k
          /\ kill_count <= attempt
          /\ \A a \in 1 .. attempt :
                Cardinality(BreachEntries(failure_summary, a)) <= 1)
    /\ [][/\ (TickStep /\ stage_now' = BREACH) => kill_count' = kill_count + 1
          /\ kill_count' # kill_count =>
                /\ kill_count' = kill_count + 1
                /\ TickStep /\ stage_now' = BREACH /\ pc' = "post"
                /\ BreachEntries(failure_summary, attempt) = {}
                /\ Cardinality(BreachEntries(failure_summary', attempt)) = 1
                /\ log_tail' = LogTail(attempt, failures)
                /\ child.st = "running"
                /\ child'.st = "killed" /\ child'.by = "watchdog"]_vars

\* two attempts, each killed once by the watchdog, no abort configured
C26_Witness ==
    /\ pc = "post" /\ attempt = 2 /\ kill_count = 2 /\ abort_after_kills = 0
    /\ child.st = "killed" /\ child.by = "watchdog"
    /\ Cardinality(BreachEntries(failure_summary, 1)) = 1
    /\ Cardinality(BreachEntries(failure_summary, 2)) = 1
    /\ log_tail = LogTail(2, 1)
    /\ breach_calls = BreachCalls(FALSE)

\* C27: the supervisor returns 3 only after a BREACH at which the kill
\* counter had reached a configured abort_after_kills > 0; with the watchdog
\* disabled or abort_after_kills = 0 the exit code is never 3, no attempt is
\* marked for abort, and a BREACH kill is followed by the failure
\* accounting and the next pass of the attempt loop.
C27_WashoutCodeOnlyOnAbort ==
    /\ [](/\ exit_code \in {0, WashoutCode}
          /\ exit_code = WashoutCode =>
                /\ pc = "done" /\ stopped_by = "washout"
                /\ watchdog_s > 0 /\ abort_after_kills > 0
                /\ kill_count >= abort_after_kills
                /\ child.by = "watchdog" /\ stage_now = BREACH
          /\ (watchdog_s = 0 \/ abort_after_kills = 0) =>
                (exit_code = 0 /\ ~abort_job)
          /\ watchdog_s = 0 => kill_count = 0)
    /\ [][(pc = "post" /\ child.by = "watchdog" /\ abort_after_kills = 0
              /\ pc' # pc) =>
             /\ pc' = "outer" /\ failures' = failures + 1
             /\ exit_code' = 0]_vars

\* abort_after_kills = 0: both attempts were killed at BREACH, each kill was
\* followed by a plain restart, and the restart limit ended the run with 0
C27_Witness ==
    /\ pc = "done" /\ abort_after_kills = 0 /\ watchdog_s > 0
    /\ kill_count = 2 /\ attempt = 2 /\ failures = 2
    /\ stopped_by = "max_restarts" /\ exit_code = 0
    /\ child.by = "watchdog"

\* the attempts that have written degrade_mode.json
DegradeWriters == {degrade_writes[i] : i \in 1 .. Len(degrade_writes)}

\* the SPILL events of attempt a in watchdog_events.jsonl
SpillEvents(a) ==
    {i \in 1 .. Len(wd_events) : wd_events[i].stage = SPILL /\ wd_events[i].attempt = a}

\* C28: degrade_mode.json is written in the pass of the poll loop in which
\* an attempt enters SPILL for the first time, and by no other step; no
\* attempt writes it twice, so a second entry into SPILL after a recovery
\* within the same attempt leaves the file alone.
C28_DegradeOncePerAttempt ==
    /\ [](/\ Cardinality(DegradeWriters) = Len(degrade_writes)
          /\ \A a \in 1 .. attempt : (a \in DegradeWriters) = (SpillEvents(a) # {})
          /\ degrade_file.exists = (degrade_writes # <<>>))
    /\ [][/\ (TickStep /\ stage_now' = SPILL /\ stage_prev # SPILL) =>
                IF attempt \in DegradeWriters
                THEN degrade_writes' = degrade_writes /\ degrade_file' = degrade_file
                ELSE /\ degrade_writes' = Append(degrade_writes, attempt)
                     /\ degrade_file'.exists /\ degrade_file'.level = "spill"
          /\ (degrade_writes' # degrade_writes \/ degrade_file' # degrade_file) =>
                /\ TickStep /\ stage_now' = SPILL /\ stage_prev # SPILL
                /\ attempt \notin DegradeWriters
                /\ degrade_writes' = Append(degrade_writes, attempt)]_vars

\* the attempt went up to SPILL, recovered to OK when output resumed, and
\* went up to SPILL a second time: one write
C28_Witness ==
    /\ pc = "inner" /\ attempt = 1 /\ stage_prev = SPILL
    /\ Cardinality(SpillEvents(1)) = 2
    /\ degrade_writes = <<1>> /\ degrade_level = "spill"
    /\ degrade_file.exists

C30_GrowthResetsClock ==
    [][(TickStep /\ moved) =>
          /\ ~moved'
          /\ stage_now' = compute_watchdog_stage(0, surge_s, spill_s, watchdog_s)
          /\ stage_now' = OK /\ stage_prev' = OK
          /\ pc' = "inner" /\ kill_count' = kill_count
          /\ idle' \in PollSleeps
          /\ IF stage_prev > OK
             THEN /\ wd_events' = Append(wd_events,
                                     WatchdogEvent(OK, "output_resumed", attempt))
                  /\ wd_state'.stage = OK /\ wd_state'.reason = "output_resumed"
             ELSE wd_events' = wd_events /\ wd_state' = wd_state]_vars

\* a child that was silent up to SPILL printed again: the next pass
\* recorded the recovery and the clock started again
C30_Witness ==
    /\ pc = "inner" /\ attempt = 1 /\ ~moved /\ out_log = <<1>>
    /\ stage_now = OK /\ stage_prev = OK /\ idle = Sec(1)
    /\ Len(wd_events) = 4
    /\ wd_events[3] = WatchdogEvent(SPILL, "no_output", 1)
    /\ wd_events[4] = WatchdogEvent(OK, "output_resumed", 1)
    /\ wd_state.reason = "output_resumed"

\* C31: when an attempt whose child was spawned has been counted as a
\* failure (a nonzero exit as well as a watchdog kill) and main() is back at
\* the head of the attempt loop, child_log_tail.txt has been rewritten
\* during that attempt.
C31_TailOnEachFailure ==
    (pc = "outer" /\ attempt > 0 /\ child.attempt = attempt) =>
        /\ log_tail.exists
        /\ log_tail.attempt = attempt

\* C32: main() is past the poll loop only with a child that has exited or
\* was killed, and its next step is the outcome classification, which it can
\* always take. That step persists in state.json the child's own exit code
\* when the child had exited, the exit code of the kill when the killed
\* child was reaped within the bounded wait, and the sentinel -1 when it was
\* not; the same code is the one the classification uses.
C32_ExitCodeResolution ==
    /\ [](pc = "post" =>
            /\ child.st \in {"exited", "killed"}
            /\ ENABLED (EndAbort \/ EndDone \/ EndFailure))
    /\ [][(pc = "post" /\ pc' # pc) =>
            /\ pc' \in {"outer", "done"}
            /\ state_json'.exists /\ ~state_json'.child_running
            /\ state_json'.attempt = attempt
            /\ state_json'.child_exit_code = rc'
            /\ IF child.st = "exited"
               THEN rc' = child.rc /\ child'.st = "exited"
               ELSE \/ rc' = KilledRc /\ child'.st = "exited"
                    \/ rc' = TimeoutRc /\ child'.st = "lingering"]_vars

\* the child killed at BREACH was not reaped within the wait: state.json
\* holds -1 and the attempt was counted as a failure
C32_Witness ==
    /\ pc = "outer" /\ attempt = 1 /\ failures = 1
    /\ child.st = "lingering" /\ child.by = "watchdog"
    /\ rc = TimeoutRc
    /\ state_json.child_exit_code = TimeoutRc /\ ~state_json.child_running

\* C33: no attempt is spawned before the child of the previous attempt has
\* been seen to exit, also when that child was ended by a forced kill whose
\* exit code was not obtained within the bounded wait: no child is ever
\* left behind by a spawn.
C33_OneChildAtATime ==
    /\ orphans = {}
    /\ pc = "inner" => child.st \in {"running", "exited"}

\* a step that takes an attempt number and comes back to the head of the
\* attempt loop: the spawn failed
SpawnFailureStep == attempt' # attempt /\ pc' = "outer"

\* C34: a failed spawn adds exactly one to the failure count, writes neither
\* the wake trigger nor state.json, sleeps restart_backoff_s and goes back
\* to the checks at the head of the attempt loop without setting an exit
\* code; and a supervisor that stopped on the restart limit has failures >
\* max_restarts.
C34_SpawnFailureIsAFailure ==
    /\ [](stopped_by = "max_restarts" => failures > max_restarts)
    /\ [][SpawnFailureStep =>
            /\ pc = "outer"
            /\ failures <= max_restarts
            /\ attempt' = attempt + 1
            /\ failures' = failures + 1
            /\ wake_trigger' = wake_trigger /\ trig_last' = trig_last
            /\ state_json' = state_json
            /\ exit_code' = exit_code /\ stopped_by' = ""
            /\ child' = child
            /\ backoff' = 2 * restart_backoff_s]_vars

\* the command could not be started twice: the restart limit stopped the
\* supervisor, and state.json was never written
C34_Witness ==
    /\ pc = "done" /\ stopped_by = "max_restarts" /\ max_restarts = 1
    /\ attempt = 2 /\ failures = 2
    /\ child = NoChild /\ ~state_json.exists
    /\ wake_trigger.exists /\ wake_trigger.reason = "max_restarts"
    /\ backoff = SpawnBackoff(restart_backoff_s)

\* C35: the attempt counter starts at 0, so the first attempt is number 1,
\* and it changes only by a spawn attempt, which adds exactly one whether
\* the spawn succeeds or fails; the child of a successful spawn carries the
\* counter's new value as its attempt number, and the children spawned so
\* far carry distinct numbers between 1 and the counter.
C35_AttemptNumbers ==
    /\ [](/\ attempt >= 0
          /\ pc = "start" => attempt = 0
          /\ child.st # "none" => (1 <= child.attempt /\ child.attempt <= attempt)
          /\ pc \in {"inner", "post"} => child.attempt = attempt
          /\ \A a \in orphans : 1 <= a /\ a < child.attempt)
    /\ [][/\ attempt' # attempt =>
                /\ attempt' = attempt + 1
                /\ pc = "outer" /\ pc' \in {"inner", "outer"}
                /\ pc' = "inner" =>
                      (child'.st = "running" /\ child'.attempt = attempt')
                /\ pc' = "outer" => child' = child
          /\ child'.attempt # child.attempt => child'.attempt = attempt']_vars

\* the first spawn failed and the second succeeded: the child is number 2
C35_Witness ==
    /\ pc = "inner" /\ attempt = 2 /\ failures = 1
    /\ child.st = "running" /\ child.attempt = 2
    /\ ~(\E i \in 1 .. Len(sup_log) : sup_log[i] = "child exit")

\* watchdog_state.json holds stage WASHOUT
WashoutWritten == wd_state.exists /\ wd_state.stage = WASHOUT

\* C36: once watchdog_state.json holds stage WASHOUT, with reason
\* max_restarts or abort_after_kills, main() has returned or is on its way
\* out with the abort pending; it takes no other attempt number, spawns no
\* child, and no later step changes the snapshot.
C36_WashoutIsTerminal ==
    /\ [](WashoutWritten =>
            /\ wd_state.reason \in {"max_restarts", "abort_after_kills"}
            /\ pc \in {"post", "done"}
            /\ pc = "post" => (abort_job /\ wd_state.reason = "abort_after_kills")
            /\ ~ENABLED SpawnChild /\ ~ENABLED SpawnFails
            /\ ~ENABLED EndFailure)
    /\ [][WashoutWritten =>
            /\ wd_state' = wd_state
            /\ attempt' = attempt
            /\ child'.attempt = child.attempt
            /\ pc' \in {"post", "done"}]_vars

\* the second watchdog kill reached abort_after_kills = 2: the supervisor
\* returned 3 with the WASHOUT snapshot in place
C36_Witness ==
    /\ pc = "done" /\ WashoutWritten /\ wd_state.reason = "abort_after_kills"
    /\ abort_after_kills = 2 /\ kill_count = 2 /\ attempt = 2
    /\ exit_code = WashoutCode

\* the supervisor was started with --watchdog-no-output-s <= 0
WatchdogDisabled == job_json.exists /\ job_json.watchdog_no_output_s <= 0

\* C37: with the watchdog disabled the breach threshold main() works with
\* is zero, every pass of the poll loop classifies OK, the kill counter
\* stays 0, no child is killed except on a stop-file request, and neither a
\* watchdog event nor watchdog_state.json nor a status-log line nor a
\* degrade signal is written, whatever the child does.
C37_DisabledWatchdogIsInert ==
    /\ [](WatchdogDisabled =>
            /\ watchdog_s = 0 /\ surge_s = 0 /\ spill_s = 0
            /\ stage_now = OK /\ stage_prev = OK
            /\ kill_count = 0 /\ ~abort_job /\ breach_calls = <<>>
            /\ child.by \in {"", "stop_file"}
            /\ child.st = "killed" => (child.by = "stop_file" /\ pc = "post")
            /\ wd_events = <<>> /\ ~wd_state.exists
            /\ status_log = <<>> /\ ~degrade_file.exists
            /\ exit_code = 0)
    /\ [][(WatchdogDisabled /\ child.st = "running" /\ child'.st = "killed") =>
            (stop_file /\ pc = "inner" /\ pc' = "post")]_vars

\* --watchdog-no-output-s -1: the child printed once, stayed silent over
\* several passes of the poll loop and was left alone until it exited
C37_Witness ==
    /\ WatchdogDisabled /\ job_json.watchdog_no_output_s = -1
    /\ pc = "post" /\ child.st = "exited" /\ child.by = "" /\ child.rc = 1
    /\ out_log = <<1>> /\ hb_s > 0 /\ hb_idle = hb_s
    /\ status_idle = Sec(CountdownS)

\* C38: in every reachable state failures <= attempt <= failures + 1.  An
\* attempt number is taken only when the failure count equals the number of
\* attempts made, it is the next number, and the failure count moves by
\* exactly one at a time, up to the attempt number and never past it; an
\* attempt that is not counted as a failure ends the supervisor.
C38_CountersInStep ==
    /\ [](/\ failures <= attempt /\ attempt <= failures + 1
          /\ (pc = "done" /\ attempt = failures + 1) =>
                stopped_by \in {"done", "washout"})
    /\ [][/\ attempt' # attempt =>
                (failures = attempt /\ attempt' = attempt + 1)
          /\ failures' # failures =>
                (failures' = failures + 1 /\ failures' = attempt')
          /\ (pc = "post" /\ pc' = "done") =>
                (attempt' = attempt /\ failures' = failures)]_vars

\* the second attempt is running after a failed spawn: one failure counted,
\* attempt number 2
C38_Witness ==
    /\ pc = "inner" /\ child.st = "running" /\ child.attempt = 2
    /\ attempt = 2 /\ failures = 1
    /\ "failed to launch child" \in {sup_log[i] : i \in 1 .. Len(sup_log)}

\* C39: the kill counter never decreases and is carried from one attempt to
\* the next; at every test of the abort threshold, and in every other state,
\* it is at most the attempt number, hence at most failures + 1.  When
\* abort_after_kills > max_restarts + 1 no abort is ever decided, the exit
\* code is never 3, and a supervisor that has made max_restarts + 1 attempts
\* with a watchdog kill in each stops on the max_restarts limit.
C39_KillCountBound ==
    /\ [](/\ kill_count <= attempt /\ kill_count <= failures + 1
          /\ abort_after_kills > max_restarts + 1 =>
                /\ ~abort_job /\ exit_code # WashoutCode
                /\ stopped_by # "washout"
                /\ ~WashoutWritten \/ stopped_by = "max_restarts")
    /\ [][/\ kill_count' >= kill_count
          /\ attempt' # attempt => kill_count' = kill_count
          /\ (TickStep /\ stage_now' = BREACH) =>
                /\ kill_count' = kill_count + 1
                /\ kill_count' <= failures + 1
                /\ abort_job' = (abort_after_kills > 0
                                    /\ kill_count' >= abort_after_kills)]_vars

\* abort after 2 kills and no restart allowed: the only attempt was killed
\* by the watchdog, one kill short of the abort threshold, and the
\* supervisor stopped on the max_restarts limit
C39_Witness ==
    /\ pc = "done" /\ stopped_by = "max_restarts" /\ exit_code = 0
    /\ max_restarts = 0 /\ abort_after_kills = 2
    /\ kill_count = 1 /\ attempt = 1 /\ failures = 1
    /\ child.by = "watchdog"

\* the step in which the supervisor kills its running child
KillStep == child.st = "running" /\ child'.st = "killed"

\* C40: a child is killed only in the poll loop, either because the stop
\* file exists or because the time without output has reached the breach
\* threshold of an enabled watchdog.  A spawn sets the time without output to
\* the time since the spawn, zero, and the stage to OK, and from then on the
\* time without output is never more than the time since the spawn, so a
\* watchdog kill comes no earlier than the breach threshold after the spawn
\* of the child it kills.
C40_NoEarlyKill ==
    /\ [](/\ pc = "inner" => idle <= elapsed
          /\ child.by = "watchdog" =>
                (watchdog_s > 0 /\ elapsed >= watchdog_s /\ idle >= watchdog_s))
    /\ [][/\ KillStep =>
                /\ pc = "inner" /\ pc' = "post"
                /\ \/ stop_file /\ child'.by = "stop_file"
                   \/ /\ ~stop_file /\ child'.by = "watchdog"
                      /\ watchdog_s > 0 /\ ~moved
                      /\ idle >= watchdog_s /\ elapsed >= watchdog_s
          /\ (attempt' # attempt /\ pc' = "inner") =>
                (idle' = 0 /\ elapsed' = 0 /\ stage_prev' = OK)]_vars

\* the second attempt, started after a watchdog kill of the first: its child
\* printed once, the clock started again, and the child was killed when the
\* breach threshold of 2 s had passed without output
C40_Witness ==
    /\ pc = "post" /\ child.st = "killed" /\ child.by = "watchdog"
    /\ attempt = 2 /\ kill_count = 2 /\ child.attempt = 2
    /\ watchdog_s = Sec(2) /\ idle = Sec(2) /\ elapsed = Sec(2)
    /\ out_log = <<2>>

====
